---------------------------- MODULE Spec2Model ----------------------------
(***************************************************************************)
(* Model of blog_to_podcast_agent.py: the Streamlit script that turns a    *)
(* blog (URL or pasted text) into a podcast script and an audio file.      *)
(*                                                                         *)
(* One Streamlit session runs the script in its own thread and namespace;  *)
(* every script-level name (manual_content, blog_text, script, ...) is     *)
(* therefore a function of the session.  What the sessions of one process  *)
(* share is the process environment (os.environ) and the working           *)
(* directory in which the synthesis helpers create their mp3 files.        *)
(*                                                                         *)
(* Text is a sequence of one-character strings, so that strip() and        *)
(* slicing are computed rather than assumed.                               *)
(***************************************************************************)
EXTENDS Integers, Sequences, FiniteSets, TLC

(***************************************************************************)
(* Bounds of the model.                                                    *)
(***************************************************************************)
\* Longest text a user pastes as blog content.
MaxLen == 2
\* Longest URL a user types.
MaxUrlLen == 1
\* Longest text a provider returns in a pipeline run.
MaxReply == 1
\* Most <p> elements in one part of a page.
MaxPars == 2
\* Streamlit sessions served by the one process.
NumSessions == 2
\* Most whitespace a model response carries on either side.
MaxPad == 1
\* How far beyond the hard cut a model response may run.
MaxOver == 2

Sessions == 1..NumSessions

(***************************************************************************)
(* Program constants.                                                      *)
(***************************************************************************)
\* st.slider(min_value=500, max_value=4000, value=2000, step=250)
SliderMin == 500
SliderMax == 4000
SliderDefault == 2000
SliderStep == 250
\* script[: max_chars + 200]
HardCutSlack == 200
\* full_text[:15000]
SafetyLimit == 15000

SliderValues ==
    { SliderMin + k * SliderStep : k \in 0..((SliderMax - SliderMin) \div SliderStep) }

openai_voices == {"coral", "alloy", "verse", "spark", "lunar"}
elevenlabs_voices == {"Rachel", "Adam", "Bella", "Dorothy", "James"}
\* options = openai_voices + elevenlabs_voices
VoiceOptions == openai_voices \cup elevenlabs_voices

(***************************************************************************)
(* Text.                                                                   *)
(***************************************************************************)
Whitespace == {" ", "\n"}

\* The first index from i upwards that holds no whitespace (Len + 1 when
\* there is none) and the last one from i downwards (0 when there is none).
RECURSIVE FirstSolid(_, _)
FirstSolid(str, i) ==
    IF i > Len(str) THEN i
    ELSE IF str[i] \notin Whitespace THEN i
    ELSE FirstSolid(str, i + 1)

RECURSIVE LastSolid(_, _)
LastSolid(str, i) ==
    IF i < 1 THEN 0
    ELSE IF str[i] \notin Whitespace THEN i
    ELSE LastSolid(str, i - 1)

\* str.strip(): the text without its leading and trailing whitespace.
strip(str) == SubSeq(str, FirstSolid(str, 1), LastSolid(str, Len(str)))

\* str[:n] for n >= 0.
Slice(str, n) == SubSeq(str, 1, IF Len(str) < n THEN Len(str) ELSE n)

\* bool(str): a string is truthy when it is not empty.
Truthy(str) == Len(str) > 0

\* Every text of at most n characters over the alphabet.
TextsUpTo(n, alphabet) == UNION { [1..k -> alphabet] : k \in 0..n }

\* What a user can paste as content and type as URL, and what a provider
\* can return in a pipeline run.
Texts == TextsUpTo(MaxLen, {" ", "a"})
UrlTexts == TextsUpTo(MaxUrlLen, {" ", "a"})
ReplyTexts == TextsUpTo(MaxReply, {" ", "a"})

\* sep.join(chunks)
RECURSIVE Join(_, _)
Join(chunks, sep) ==
    IF Len(chunks) = 0 THEN <<>>
    ELSE IF Len(chunks) = 1 THEN chunks[1]
    ELSE chunks[1] \o sep \o Join(Tail(chunks), sep)

\* [x for x in xs if x]
RECURSIVE NonEmpty(_)
NonEmpty(xs) ==
    IF Len(xs) = 0 THEN <<>>
    ELSE IF Truthy(xs[1]) THEN <<xs[1]>> \o NonEmpty(Tail(xs))
    ELSE NonEmpty(Tail(xs))


(***************************************************************************)
(* State.                                                                  *)
(***************************************************************************)
VARIABLES
    \* the widgets of a session (lines 44-97)
    openai_key, firecrawl_key, elevenlabs_key,
    blog_url, manual_content, max_chars, voice_choice,
    \* the names the main action binds (lines 230-316)
    pc, client, blog_text, completion, script,
    audio_bytes, used_engine, used_voice,
    \* what the session's page shows: st.error, st.warning, the result block
    errors, warnings, shown,
    \* the helper calls a session has made, in order, with their arguments
    calls,
    \* the process: os.environ["OPENAI_API_KEY"], the mp3 files in the
    \* working directory, the number of uuid4() names drawn
    environ, files, uuids

widgets == <<openai_key, firecrawl_key, elevenlabs_key,
             blog_url, manual_content, max_chars, voice_choice>>
page == <<errors, warnings, shown>>
process == <<environ, files, uuids>>
vars == <<widgets, pc, client, blog_text, completion, script,
          audio_bytes, used_engine, used_voice, page, calls, process>>

\* Python's None for an Optional value kept as a sequence of length <= 1.
None == <<>>
Some(x) == <<x>>
\* os.environ without the key.
Unset == "<unset>"

\* The credentials a user can enter; the empty string is "no key".
KeyOf(s) == "sk-" \o ToString(s)
NoKey == ""

Upd(f, s, v) == [f EXCEPT ![s] = v]

\* A session whose widgets hold their defaults and whose button was never
\* pressed (an empty OpenAI key keeps the button disabled, line 228).
FreshWidgets(s) ==
    /\ openai_key[s] = NoKey
    /\ firecrawl_key[s] = NoKey
    /\ elevenlabs_key[s] = NoKey
    /\ blog_url[s] = <<>>
    /\ manual_content[s] = <<>>
    /\ max_chars[s] = SliderDefault
    /\ voice_choice[s] = "coral"

\* The state every run starts from: nothing bound, nothing shown.
InitRun ==
    /\ pc = [s \in Sessions |-> "idle"]
    /\ client = [s \in Sessions |-> None]
    /\ blog_text = [s \in Sessions |-> <<>>]
    /\ completion = [s \in Sessions |-> None]
    /\ script = [s \in Sessions |-> <<>>]
    /\ audio_bytes = [s \in Sessions |-> None]
    /\ used_engine = [s \in Sessions |-> "None"]
    /\ used_voice = [s \in Sessions |-> "None"]
    /\ errors = [s \in Sessions |-> <<>>]
    /\ warnings = [s \in Sessions |-> <<>>]
    /\ shown = [s \in Sessions |-> None]
    /\ calls = [s \in Sessions |-> <<>>]
    /\ environ = Unset
    /\ files = {}
    /\ uuids = 0

\* The widget value x in session 1 and the widget's default elsewhere.
Only1(x, default) == [s \in Sessions |-> IF s = 1 THEN x ELSE default]

\* One user filling the form in any way; the other sessions stay fresh.
Init ==
    /\ openai_key \in { Only1(k, NoKey) : k \in {NoKey, KeyOf(1)} }
    /\ firecrawl_key \in { Only1(k, NoKey) : k \in {NoKey, "fc-key"} }
    /\ elevenlabs_key \in { Only1(k, NoKey) : k \in {NoKey, "xi-key"} }
    /\ blog_url \in { Only1(u, <<>>) : u \in UrlTexts }
    /\ manual_content \in { Only1(m, <<>>) : m \in Texts }
    /\ max_chars = Only1(SliderDefault, SliderDefault)
    /\ voice_choice \in { Only1(v, "coral") : v \in VoiceOptions }
    /\ \A s \in Sessions \ {1} : FreshWidgets(s)
    /\ InitRun

(***************************************************************************)
(* Helpers of the main action.                                             *)
(***************************************************************************)
\* One entry of a session's call log: the helper called, its text argument
\* (a URL, a source text or a script), its voice argument, whether it
\* returned, and the text it returned (empty when it returns audio).
Call(fn, text, voice, ok, out) ==
    [fn |-> fn, text |-> text, voice |-> voice, ok |-> ok, out |-> out]

Log(s, fn, text, voice, ok, out) ==
    calls' = Upd(calls, s, Append(calls[s], Call(fn, text, voice, ok, out)))

\* st.error(...)
StError(s, msg) == errors' = Upd(errors, s, Append(errors[s], msg))

\* st.warning(...)
StWarning(s, msg) == warnings' = Upd(warnings, s, Append(warnings[s], msg))

\* st.stop(): the script run ends here.  Streamlit raises StopException, a
\* BaseException, which the `except Exception` of line 315 does not catch.
StStop(s) ==
    /\ pc' = Upd(pc, s, "stopped")
    /\ UNCHANGED <<warnings, shown>>

\* except Exception as e: st.error(f"Unexpected error: {e}")   (lines 315-316)
Unexpected(s) ==
    /\ pc' = Upd(pc, s, "error")
    /\ StError(s, "Unexpected error")
    /\ UNCHANGED shown

\* get_openai_client: the key goes into the process environment and into
\* the client (lines 103-106).
get_openai_client(s, api_key) ==
    /\ environ' = api_key
    /\ client' = Upd(client, s, Some(api_key))

(***************************************************************************)
(* The helper functions (lines 103-222).  What an external service does    *)
(* is an input of the helper: it is drawn where the helper is called.      *)
(***************************************************************************)
Raise(left) == [raised |-> TRUE, value |-> None, left |-> left]
Return(v, left) == [raised |-> FALSE, value |-> Some(v), left |-> left]

\* What Firecrawl can do with one scrape (lines 111-118): the package may be
\* missing, the call may raise, and the document may lack the fields read.
FirecrawlShapes ==
    {"not_installed", "scrape_raises", "empty_doc", "no_data", "no_markdown",
     "markdown_null", "markdown"}
FirecrawlReplies ==
    { [shape |-> sh, markdown |-> <<>>] : sh \in FirecrawlShapes \ {"markdown"} }
    \cup { [shape |-> "markdown", markdown |-> md] : md \in ReplyTexts }

\* fetch_content_with_firecrawl(url, api_key), lines 109-120.
fetch_content_with_firecrawl(reply) ==
    IF reply.shape = "not_installed" THEN Raise({})
    ELSE IF reply.shape = "scrape_raises" THEN Raise({})
    ELSE IF reply.shape \in {"empty_doc", "no_data", "no_markdown"} THEN Raise({})
    ELSE IF reply.shape = "markdown_null" THEN Return(strip(<<>>), {})
    ELSE Return(strip(reply.markdown), {})

\* The paragraphs a page is made of.
Paragraphs == { <<" ">>, <<"a">> }
ParLists == UNION { [1..k -> Paragraphs] : k \in 0..MaxPars }
\* A page: the <p> elements of its first <article>, if it has one, and the
\* <p> elements outside it.
Pages ==
    { [article |-> a, other |-> o] :
        a \in {None} \cup { Some(ps) : ps \in ParLists }, o \in ParLists }
RequestsReplies ==
    { [shape |-> sh, page |-> [article |-> None, other |-> <<>>]] :
        sh \in {"get_raises", "http_error"} }
    \cup { [shape |-> "page", page |-> pg] : pg \in Pages }

\* fetch_content_with_requests(url), lines 123-148.
fetch_content_with_requests(reply) ==
    IF reply.shape = "get_raises" THEN Raise({})
    ELSE IF reply.shape = "http_error" THEN Raise({})
    ELSE
        LET paragraphs ==
                IF reply.page.article # None
                THEN reply.page.article[1]
                ELSE reply.page.other
            stripped == [i \in 1..Len(paragraphs) |-> strip(paragraphs[i])]
            text_chunks == NonEmpty(stripped)
            full_text == Join(text_chunks, <<"\n", "\n">>)
        IN  Return(Slice(full_text, SafetyLimit), {})

\* generate_podcast_script cutting at max_chars, without the slack of 200.
generate_podcast_script_NoSlack(content, max) ==
    Slice(strip(content), max)

\* The text generate_podcast_script returns for the content of the model's
\* first choice (lines 175-177).
generate_podcast_script(content, max) ==
    Slice(strip(content), max + HardCutSlack)

\* The audio a provider makes of a text in a voice.
Audio(engine, voice, text) == [engine |-> engine, voice |-> voice, text |-> text]

\* podcast_<uuid4>_<suffix>.mp3
FileName(n, suffix) == [uuid |-> n, suffix |-> suffix]

\* What can happen during one synthesis call: the optional package may be
\* missing, the provider may raise, writing the file may fail before or
\* after the file exists, reading it back may fail, unlink may fail.
WriteResults == {"written", "fails_before_create", "fails_after_create"}
TtsWorlds ==
    [installed : BOOLEAN, provider_ok : BOOLEAN, write : WriteResults,
     read_ok : BOOLEAN, unlink_ok : BOOLEAN]

\* tts_with_elevenlabs(text, api_key, voice), lines 180-201.
tts_with_elevenlabs(text, voice, tmp_path, w) ==
    IF ~w.installed THEN Raise({})
    ELSE IF ~w.provider_ok THEN Raise({})
    ELSE IF w.write = "fails_before_create" THEN Raise({})
    ELSE IF w.write = "fails_after_create" THEN Raise({tmp_path})
    ELSE IF ~w.read_ok THEN Raise({tmp_path})
    ELSE Return(Audio("elevenlabs", voice, text),
                IF w.unlink_ok THEN {} ELSE {tmp_path})

\* tts_with_openai(client, text, voice), lines 204-222.
tts_with_openai(text, voice, audio_path, w) ==
    IF ~w.provider_ok THEN Raise({})
    ELSE IF w.write = "fails_before_create" THEN Raise({})
    ELSE IF w.write = "fails_after_create" THEN Raise({audio_path})
    ELSE IF ~w.read_ok THEN Raise({audio_path})
    ELSE Return(Audio("openai", voice, text),
                IF w.unlink_ok THEN {} ELSE {audio_path})

(***************************************************************************)
(* The main action (lines 228-316), one step per stage.                    *)
(***************************************************************************)
\* st.stop() raising something the `except Exception` of line 315 catches:
\* a second error is shown.
ErrorAndStop_Caught(s, msg) ==
    /\ errors' = Upd(errors, s, errors[s] \o <<msg, "Unexpected error">>)
    /\ pc' = Upd(pc, s, "error")
    /\ UNCHANGED <<warnings, shown>>

\* st.error(msg); st.stop()   (lines 243-244 and 265-266)
ErrorAndStop(s, msg) ==
    /\ StError(s, msg)
    /\ StStop(s)

\* The URL taking priority: manual content is used only without a URL.
UseManual_UrlFirst(s) ==
    Truthy(strip(manual_content[s])) /\ ~Truthy(strip(blog_url[s]))

\* if manual_content.strip():   (line 238)
UseManual(s) == Truthy(strip(manual_content[s]))

\* `if not blog_url:`, the URL tested without strip().
NoUrl_Untrimmed(s) == ~Truthy(blog_url[s])

\* if not blog_url.strip():   (line 242)
NoUrl(s) == ~Truthy(strip(blog_url[s]))

\* url = blog_url.strip()   (line 246)
url(s) == strip(blog_url[s])

\* wants_eleven without the test of the key.
wants_eleven_AnyKey(s) == voice_choice[s] \in elevenlabs_voices

\* wants_eleven = (voice_choice in elevenlabs_voices) and bool(elevenlabs_key)
wants_eleven(s) ==
    voice_choice[s] \in elevenlabs_voices /\ elevenlabs_key[s] # NoKey

\* The requested voice handed to OpenAI TTS whatever its catalog.
openai_voice_Requested(s) == voice_choice[s]

\* openai_voice = voice_choice if voice_choice in openai_voices else "coral"
openai_voice(s) ==
    IF voice_choice[s] \in openai_voices THEN voice_choice[s] ELSE "coral"

\* The button is pressed (it is disabled without an OpenAI key) and the
\* client is created: lines 228-235.
Generate(s) ==
    /\ pc[s] = "idle"
    /\ openai_key[s] # NoKey
    /\ get_openai_client(s, openai_key[s])
    /\ pc' = Upd(pc, s, "source")
    /\ UNCHANGED <<widgets, blog_text, completion, script, audio_bytes,
                   used_engine, used_voice, page, calls, files, uuids>>

\* 1. Decide source text: lines 237-250.
DecideSource(s) ==
    /\ pc[s] = "source"
    /\ \/ /\ UseManual(s)
          /\ blog_text' = Upd(blog_text, s, strip(manual_content[s]))
          /\ pc' = Upd(pc, s, "check")
          /\ UNCHANGED page
       \/ /\ ~UseManual(s)
          /\ NoUrl(s)
          /\ ErrorAndStop(s, "Please either paste blog content or provide a URL.")
          /\ UNCHANGED blog_text
       \/ /\ ~UseManual(s)
          /\ ~NoUrl(s)
          /\ blog_text' = Upd(blog_text, s, <<>>)
          /\ pc' = Upd(pc, s, IF firecrawl_key[s] # NoKey THEN "firecrawl"
                                                         ELSE "fallback")
          /\ UNCHANGED page
    /\ UNCHANGED <<widgets, client, completion, script, audio_bytes,
                   used_engine, used_voice, calls, process>>

\* The Firecrawl call outside any try: its error reaches line 315.
FirecrawlFailed_Propagates(s) ==
    /\ errors' = Upd(errors, s, Append(errors[s], "Unexpected error"))
    /\ pc' = Upd(pc, s, "error")
    /\ UNCHANGED <<blog_text, warnings, shown>>

\* except Exception as e: st.warning("Firecrawl scraping failed, ...")
FirecrawlFailed(s) ==
    /\ StWarning(s, "Firecrawl scraping failed")
    /\ pc' = Upd(pc, s, "fallback")
    /\ UNCHANGED <<blog_text, errors, shown>>

\* Try Firecrawl first if the key is present: lines 250-257.
TryFirecrawl(s) ==
    /\ pc[s] = "firecrawl"
    /\ \E reply \in FirecrawlReplies :
         LET r == fetch_content_with_firecrawl(reply) IN
         /\ Log(s, "fetch_content_with_firecrawl", url(s), "", ~r.raised,
                IF r.raised THEN <<>> ELSE r.value[1])
         /\ \/ /\ r.raised
               /\ FirecrawlFailed(s)
            \/ /\ ~r.raised
               /\ blog_text' = Upd(blog_text, s, r.value[1])
               /\ pc' = Upd(pc, s, "fallback")
               /\ UNCHANGED page
    /\ UNCHANGED <<widgets, client, completion, script, audio_bytes,
                   used_engine, used_voice, process>>

\* If there is no Firecrawl key or Firecrawl gave nothing, fall back to
\* requests + BeautifulSoup: lines 259-262.
FallbackFetch(s) ==
    /\ pc[s] = "fallback"
    /\ \/ /\ Truthy(blog_text[s])
          /\ pc' = Upd(pc, s, "check")
          /\ UNCHANGED <<blog_text, page, calls>>
       \/ /\ ~Truthy(blog_text[s])
          /\ \E reply \in RequestsReplies :
               LET r == fetch_content_with_requests(reply) IN
               /\ Log(s, "fetch_content_with_requests", url(s), "", ~r.raised,
                      IF r.raised THEN <<>> ELSE r.value[1])
               /\ \/ /\ r.raised
                     /\ Unexpected(s)
                     /\ UNCHANGED <<blog_text, warnings>>
                  \/ /\ ~r.raised
                     /\ blog_text' = Upd(blog_text, s, r.value[1])
                     /\ pc' = Upd(pc, s, "check")
                     /\ UNCHANGED page
    /\ UNCHANGED <<widgets, client, completion, script, audio_bytes,
                   used_engine, used_voice, process>>

\* The main action without the test of line 264.
CheckContent_Lenient(s) ==
    /\ pc[s] = "check"
    /\ pc' = Upd(pc, s, "script")
    /\ UNCHANGED <<widgets, client, blog_text, completion, script, audio_bytes,
                   used_engine, used_voice, page, calls, process>>

\* if not blog_text: st.error(...); st.stop()   (lines 264-266)
CheckContent(s) ==
    /\ pc[s] = "check"
    /\ \/ /\ ~Truthy(blog_text[s])
          /\ ErrorAndStop(s, "No content found to summarize from the blog.")
       \/ /\ Truthy(blog_text[s])
          /\ pc' = Upd(pc, s, "script")
          /\ UNCHANGED page
    /\ UNCHANGED <<widgets, client, blog_text, completion, script, audio_bytes,
                   used_engine, used_voice, calls, process>>

\* 2. Generate the podcast script (lines 268-270, 151-177).  The completion
\* request may raise, the message may carry no content (None.strip()
\* raises), or it carries one of the given responses.
ScriptStage(s, responses) ==
    /\ pc[s] = "script"
    /\ \/ /\ \E failure \in {"create_raises", "content_none"} :
               Log(s, "generate_podcast_script", blog_text[s], "", FALSE, <<>>)
          /\ Unexpected(s)
          /\ UNCHANGED <<completion, script, warnings>>
       \/ /\ \E content \in responses :
               /\ completion' = Upd(completion, s, Some(content))
               /\ script' = Upd(script, s,
                                generate_podcast_script(content, max_chars[s]))
          /\ Log(s, "generate_podcast_script", blog_text[s], "", TRUE,
                 script'[s])
          /\ pc' = Upd(pc, s, "voice")
          /\ UNCHANGED page
    /\ UNCHANGED <<widgets, client, blog_text, audio_bytes,
                   used_engine, used_voice, process>>

GenerateScript(s) == ScriptStage(s, ReplyTexts)

\* except Exception as e: st.warning("ElevenLabs audio generation failed, ...")
ElevenLabsFailed(s) ==
    /\ StWarning(s, "ElevenLabs audio generation failed")
    /\ pc' = Upd(pc, s, "tts_default")
    /\ UNCHANGED <<audio_bytes, used_engine, used_voice, errors, shown>>

\* 3. Audio, the premium engine first when it is wanted: lines 272-289.
SynthesizePremium(s) ==
    /\ pc[s] = "voice"
    /\ \/ /\ ~wants_eleven(s)
          /\ pc' = Upd(pc, s, "tts_default")
          /\ UNCHANGED <<audio_bytes, used_engine, used_voice, page, calls,
                         files, uuids>>
       \/ /\ wants_eleven(s)
          /\ uuids' = uuids + 1
          /\ \E w \in TtsWorlds :
               LET r == tts_with_elevenlabs(script[s], voice_choice[s],
                                            FileName(uuids' , "11labs"), w) IN
               /\ files' = files \cup r.left
               /\ Log(s, "tts_with_elevenlabs", script[s], voice_choice[s],
                      ~r.raised, <<>>)
               /\ \/ /\ r.raised
                     /\ ElevenLabsFailed(s)
                  \/ /\ ~r.raised
                     /\ audio_bytes' = Upd(audio_bytes, s, r.value)
                     /\ used_engine' = Upd(used_engine, s, "ElevenLabs")
                     /\ used_voice' = Upd(used_voice, s, voice_choice[s])
                     /\ pc' = Upd(pc, s, "tts_default")
                     /\ UNCHANGED page
    /\ UNCHANGED <<widgets, client, blog_text, completion, script, environ>>

\* If ElevenLabs was not used or failed, OpenAI TTS: lines 291-298.
SynthesizeDefault(s) ==
    /\ pc[s] = "tts_default"
    /\ \/ /\ audio_bytes[s] # None
          /\ pc' = Upd(pc, s, "show")
          /\ UNCHANGED <<audio_bytes, used_engine, used_voice, page, calls,
                         files, uuids>>
       \/ /\ audio_bytes[s] = None
          /\ uuids' = uuids + 1
          /\ \E w \in TtsWorlds :
               LET r == tts_with_openai(script[s], openai_voice(s),
                                        FileName(uuids', "openai"), w) IN
               /\ files' = files \cup r.left
               /\ Log(s, "tts_with_openai", script[s], openai_voice(s),
                      ~r.raised, <<>>)
               /\ \/ /\ r.raised
                     /\ Unexpected(s)
                     /\ UNCHANGED <<audio_bytes, used_engine, used_voice,
                                    warnings>>
                  \/ /\ ~r.raised
                     /\ audio_bytes' = Upd(audio_bytes, s, r.value)
                     /\ used_engine' = Upd(used_engine, s, "OpenAI TTS")
                     /\ used_voice' = Upd(used_voice, s, openai_voice(s))
                     /\ pc' = Upd(pc, s, "show")
                     /\ UNCHANGED page
    /\ UNCHANGED <<widgets, client, blog_text, completion, script, environ>>

\* 4. Show results: st.success, st.audio, the download button and the
\* script (lines 300-313).
ShowResults(s) ==
    /\ pc[s] = "show"
    /\ shown' = Upd(shown, s, Some([script |-> script[s],
                                    audio |-> audio_bytes[s][1],
                                    engine |-> used_engine[s],
                                    voice |-> used_voice[s]]))
    /\ pc' = Upd(pc, s, "done")
    /\ UNCHANGED <<widgets, client, blog_text, completion, script, audio_bytes,
                   used_engine, used_voice, errors, warnings, calls, process>>

\* One step of the script run of a session.
RunStep(s) ==
    \/ Generate(s)
    \/ DecideSource(s)
    \/ TryFirecrawl(s)
    \/ FallbackFetch(s)
    \/ CheckContent(s)
    \/ GenerateScript(s)
    \/ SynthesizePremium(s)
    \/ SynthesizeDefault(s)
    \/ ShowResults(s)

Next == \E s \in Sessions : RunStep(s)

Spec == Init /\ [][Next]_vars

(***************************************************************************)
(* Script generation at the lengths the slider allows.  The runs take the  *)
(* pasted text "a" and every slider position; the model answers with a     *)
(* text around the hard cut, with or without whitespace around it.         *)
(***************************************************************************)
Pad(k) == [i \in 1..k |-> " "]
Body(n) == [i \in 1..n |-> <<"a", " ", "b">>[((i - 1) % 3) + 1]]

ModelResponses(max) ==
    ReplyTexts \cup
    { Pad(l) \o Body(max + HardCutSlack + d) \o Pad(r) :
        l \in 0..MaxPad, r \in 0..MaxPad, d \in (0 - MaxOver)..MaxOver }

GenerateScriptAtLength(s) == ScriptStage(s, ModelResponses(max_chars[s]))

InitScript ==
    /\ openai_key = Only1(KeyOf(1), NoKey)
    /\ firecrawl_key = Only1(NoKey, NoKey)
    /\ elevenlabs_key = Only1(NoKey, NoKey)
    /\ blog_url = Only1(<<>>, <<>>)
    /\ manual_content = Only1(<<"a">>, <<>>)
    /\ max_chars \in { Only1(m, SliderDefault) : m \in SliderValues }
    /\ voice_choice = Only1("coral", "coral")
    /\ InitRun

NextScript ==
    \E s \in Sessions :
        \/ Generate(s)
        \/ DecideSource(s)
        \/ CheckContent(s)
        \/ GenerateScriptAtLength(s)

SpecScript == InitScript /\ [][NextScript]_vars

(***************************************************************************)
(* Several users at once: every session has its own OpenAI key and runs    *)
(* the main action; Streamlit interleaves the script runs of the sessions  *)
(* of one process.                                                         *)
(***************************************************************************)
InitConc ==
    /\ openai_key = [s \in Sessions |-> KeyOf(s)]
    /\ firecrawl_key = [s \in Sessions |-> "fc-key"]
    /\ elevenlabs_key = [s \in Sessions |-> IF s = 1 THEN "xi-key" ELSE NoKey]
    /\ blog_url = [s \in Sessions |-> <<"a">>]
    /\ manual_content \in [Sessions -> {<<>>, <<"a">>}]
    /\ max_chars = [s \in Sessions |-> SliderDefault]
    /\ voice_choice = [s \in Sessions |-> "Rachel"]
    /\ InitRun

SpecConc == InitConc /\ [][Next]_vars

(***************************************************************************)
(* Properties.                                                             *)
(***************************************************************************)
FC == "fetch_content_with_firecrawl"
RQ == "fetch_content_with_requests"
GS == "generate_podcast_script"
EL == "tts_with_elevenlabs"
OA == "tts_with_openai"

\* The positions in a session's call log at which helper fn was called.
CallsOf(s, fn) == { i \in 1..Len(calls[s]) : calls[s][i].fn = fn }

\* The run of the session has ended: results shown, st.stop(), or the
\* error of line 316.
Terminal(s) == pc[s] \in {"done", "stopped", "error"}

\* C1: when the manual text is non-empty after trimming, neither
\* fetch_content_with_firecrawl nor fetch_content_with_requests is ever
\* called in the run, whatever the URL and the Firecrawl key are, and the
\* text handed to generate_podcast_script is the trimmed manual text.
C1_ManualTextBypassesFetch ==
    \A s \in Sessions :
        Truthy(strip(manual_content[s])) =>
            /\ CallsOf(s, FC) = {}
            /\ CallsOf(s, RQ) = {}
            /\ \A i \in CallsOf(s, GS) :
                   calls[s][i].text = strip(manual_content[s])
            /\ pc[s] \notin {"idle", "source"} =>
                   blog_text[s] = strip(manual_content[s])

\* A finished run whose pasted text had whitespace to trim, with a URL and a
\* Firecrawl key given as well.
C1_Witness ==
    \E s \in Sessions :
        /\ pc[s] = "done"
        /\ Truthy(strip(manual_content[s]))
        /\ manual_content[s] # strip(manual_content[s])
        /\ Truthy(strip(blog_url[s]))
        /\ firecrawl_key[s] # NoKey
        /\ CallsOf(s, GS) # {}

\* C3: the script generate_podcast_script returns is never longer than
\* max_chars + 200; a stripped model response within that bound is returned
\* as it is, a longer one is cut to exactly its first max_chars + 200
\* characters.
C3_ScriptHardCut ==
    \A s \in Sessions :
        \A i \in CallsOf(s, GS) :
            calls[s][i].ok =>
                LET bound == max_chars[s] + 200
                    response == strip(completion[s][1])
                    returned == calls[s][i].out
                IN  /\ max_chars[s] \in 500..4000
                    /\ returned = script[s]
                    /\ Len(returned) <= bound
                    /\ Len(response) <= bound => returned = response
                    /\ Len(response) > bound =>
                           /\ Len(returned) = bound
                           /\ \A k \in 1..bound : returned[k] = response[k]

\* A response longer than the bound, with whitespace around it, was cut.
C3_Witness ==
    \E s \in Sessions :
        /\ pc[s] = "voice"
        /\ completion[s] # None
        /\ completion[s][1] # strip(completion[s][1])
        /\ Len(strip(completion[s][1])) > max_chars[s] + 200
        /\ Len(script[s]) = max_chars[s] + 200
        /\ max_chars[s] \in {500, 4000}

\* C4: with a voice of the ElevenLabs catalog and no ElevenLabs key,
\* tts_with_elevenlabs is never called, and a run that succeeds reports the
\* engine "OpenAI TTS" and the voice "coral", never the requested voice.
C4_PremiumVoiceWithoutKey ==
    \A s \in Sessions :
        (voice_choice[s] \in elevenlabs_voices /\ elevenlabs_key[s] = NoKey) =>
            /\ CallsOf(s, EL) = {}
            /\ \A i \in CallsOf(s, OA) : calls[s][i].voice = "coral"
            /\ used_voice[s] # voice_choice[s]
            /\ pc[s] \in {"show", "done"} =>
                   /\ used_engine[s] = "OpenAI TTS"
                   /\ used_voice[s] = "coral"
                   /\ audio_bytes[s] = Some(Audio("openai", "coral", script[s]))
            /\ pc[s] = "done" =>
                   /\ shown[s][1].engine = "OpenAI TTS"
                   /\ shown[s][1].voice = "coral"

\* A run that succeeded with a premium voice requested and no premium key.
C4_Witness ==
    \E s \in Sessions :
        /\ voice_choice[s] \in elevenlabs_voices
        /\ elevenlabs_key[s] = NoKey
        /\ pc[s] = "done"
        /\ shown[s] # None

\* C6: when the manual text and the URL are both empty after trimming, the
\* run ends with the input error and nothing else: no helper that reaches a
\* provider is ever called and no result is shown.
C6_NoInputNoCall ==
    \A s \in Sessions :
        (~Truthy(strip(manual_content[s])) /\ ~Truthy(strip(blog_url[s]))) =>
            /\ calls[s] = <<>>
            /\ shown[s] = None
            /\ audio_bytes[s] = None
            /\ pc[s] \in {"idle", "source", "stopped"}
            /\ pc[s] = "stopped" =>
                   errors[s] =
                       <<"Please either paste blog content or provide a URL.">>

\* A run stopped by the input error, its widgets holding only whitespace.
C6_Witness ==
    \E s \in Sessions :
        /\ manual_content[s] # <<>>
        /\ blog_url[s] # <<>>
        /\ ~Truthy(strip(manual_content[s]))
        /\ ~Truthy(strip(blog_url[s]))
        /\ pc[s] = "stopped"
        /\ Len(errors[s]) = 1

\* The Firecrawl call of the session raised.
FirecrawlRaised(s) ==
    /\ Len(calls[s]) >= 1
    /\ calls[s][1].fn = FC
    /\ ~calls[s][1].ok

\* No call of a mandatory helper (basic fetch, script generation, OpenAI
\* TTS) made by the session has raised.
MandatoryAllReturned(s) ==
    \A i \in 1..Len(calls[s]) :
        calls[s][i].fn \in {RQ, GS, OA} => calls[s][i].ok

\* C2 as stated: after a Firecrawl error the run ends with a result whenever
\* no mandatory helper raises.
C2_Original ==
    \A s \in Sessions :
        (FirecrawlRaised(s) /\ Terminal(s) /\ MandatoryAllReturned(s)) =>
            pc[s] = "done"

\* C2, amended: when the Firecrawl call raises, a warning is shown and no
\* error, fetch_content_with_requests is then called exactly once with the
\* same URL, and the run ends with a result built from the text it
\* returned whenever that text is not empty and no mandatory helper
\* raises; when the text is empty the run ends with the "No content found"
\* error, and otherwise it ends with the error of the mandatory helper that
\* raised.
C2_FirecrawlFailureFallsBack ==
    \A s \in Sessions :
        FirecrawlRaised(s) =>
            /\ warnings[s] # <<>>
            /\ warnings[s][1] = "Firecrawl scraping failed"
            /\ pc[s] = "fallback" => (Len(calls[s]) = 1 /\ errors[s] = <<>>)
            /\ pc[s] # "fallback" =>
                   /\ CallsOf(s, RQ) = {2}
                   /\ CallsOf(s, FC) = {1}
                   /\ calls[s][2].text = calls[s][1].text
                   /\ calls[s][2].text = strip(blog_url[s])
            /\ Terminal(s) =>
                   IF MandatoryAllReturned(s) /\ Truthy(calls[s][2].out)
                   THEN /\ pc[s] = "done"
                        /\ errors[s] = <<>>
                        /\ \A i \in CallsOf(s, GS) :
                               /\ calls[s][i].text = calls[s][2].out
                               /\ shown[s][1].script = calls[s][i].out
                   ELSE IF MandatoryAllReturned(s)
                   THEN /\ pc[s] = "stopped"
                        /\ errors[s] =
                               <<"No content found to summarize from the blog.">>
                   ELSE /\ pc[s] = "error"
                        /\ errors[s] = <<"Unexpected error">>

\* A run that succeeded after its Firecrawl call raised.
C2_Witness ==
    \E s \in Sessions :
        /\ FirecrawlRaised(s)
        /\ pc[s] = "done"
        /\ Len(warnings[s]) >= 1
        /\ CallsOf(s, RQ) = {2}

\* The ElevenLabs call of the session raised.
ElevenLabsRaised(s) ==
    \E i \in CallsOf(s, EL) : ~calls[s][i].ok

\* C5: with a premium voice and a premium key, when tts_with_elevenlabs
\* raises (provider error or missing package) the error becomes a warning,
\* tts_with_openai is then called exactly once, with the voice "coral", and
\* it alone decides: if it returns, the engine is "OpenAI TTS" and the voice
\* "coral"; if it raises, the run ends in error and no further call is made.
C5_PremiumFailureFallsBack ==
    \A s \in Sessions :
        (voice_choice[s] \in elevenlabs_voices /\ elevenlabs_key[s] # NoKey
         /\ ElevenLabsRaised(s)) =>
            LET e == CHOOSE i \in CallsOf(s, EL) : TRUE IN
            /\ CallsOf(s, EL) = {e}
            /\ warnings[s] # <<>>
            /\ warnings[s][Len(warnings[s])] = "ElevenLabs audio generation failed"
            /\ pc[s] = "tts_default" =>
                   (Len(calls[s]) = e /\ errors[s] = <<>> /\ audio_bytes[s] = None)
            /\ pc[s] # "tts_default" =>
                   /\ Len(calls[s]) = e + 1
                   /\ CallsOf(s, OA) = {e + 1}
                   /\ calls[s][e + 1].voice = "coral"
                   /\ calls[s][e + 1].text = script[s]
                   /\ IF calls[s][e + 1].ok
                      THEN /\ pc[s] \in {"show", "done"}
                           /\ used_engine[s] = "OpenAI TTS"
                           /\ used_voice[s] = "coral"
                           /\ audio_bytes[s] =
                                  Some(Audio("openai", "coral", script[s]))
                           /\ errors[s] = <<>>
                      ELSE /\ pc[s] = "error"
                           /\ errors[s] = <<"Unexpected error">>
                           /\ audio_bytes[s] = None
                           /\ shown[s] = None

\* A run that succeeded with OpenAI TTS after its ElevenLabs call raised.
C5_Witness ==
    \E s \in Sessions :
        /\ voice_choice[s] \in elevenlabs_voices
        /\ elevenlabs_key[s] # NoKey
        /\ ElevenLabsRaised(s)
        /\ pc[s] = "done"
        /\ shown[s][1].voice = "coral"

\* C7: whenever a synthesis call has returned, by success or by failure at
\* any of its steps, none of the mp3 files it created is left: the working
\* directory never holds a transient file between calls.
C7_NoTransientFileRemains == files = {}

\* The label the result block gives the engine that made an audio.
EngineLabel(audio) ==
    IF audio.engine = "elevenlabs" THEN "ElevenLabs" ELSE "OpenAI TTS"

\* C8: a run shows nothing before it ends, a run that has started and not
\* ended always has a next step, and it ends in one of two ways: with a
\* complete result (the script, the audio made of that script, and the
\* engine and voice that made the audio) and no error, or with exactly one
\* error and neither script nor audio shown, also when the script had been
\* generated before synthesis failed.
C8_ResultOrSingleError ==
    \A s \in Sessions :
        /\ ~Terminal(s) => (errors[s] = <<>> /\ shown[s] = None)
        /\ (pc[s] # "idle" /\ ~Terminal(s)) => ENABLED RunStep(s)
        /\ pc[s] = "done" =>
               /\ errors[s] = <<>>
               /\ shown[s] # None
               /\ audio_bytes[s] # None
               /\ shown[s][1].script = script[s]
               /\ shown[s][1].audio = audio_bytes[s][1]
               /\ shown[s][1].audio.text = script[s]
               /\ shown[s][1].engine = EngineLabel(shown[s][1].audio)
               /\ shown[s][1].voice = shown[s][1].audio.voice
        /\ pc[s] \in {"stopped", "error"} =>
               /\ Len(errors[s]) = 1
               /\ shown[s] = None

\* A run that ended in error at synthesis after its script was generated.
C8_Witness ==
    \E s \in Sessions :
        /\ pc[s] = "error"
        /\ \E i \in CallsOf(s, GS) : calls[s][i].ok /\ Truthy(calls[s][i].out)
        /\ \E j \in CallsOf(s, OA) : ~calls[s][j].ok
        /\ Truthy(script[s])
        /\ shown[s] = None

\* C9: two runs of one process share no request data: a run never finds in
\* the process environment a credential that another run has written.
C9_NoCredentialAcrossRuns ==
    \A s \in Sessions : \A r \in Sessions \ {s} :
        (pc[s] # "idle" /\ pc[r] # "idle" /\ openai_key[r] # openai_key[s]) =>
            environ # openai_key[r]

\* The place of a helper in the order of the stages.
Rank(fn) ==
    CASE fn = FC -> 1
      [] fn = RQ -> 2
      [] fn = GS -> 3
      [] fn = EL -> 4
      [] fn = OA -> 5

\* C10: the helpers are called in the order of the stages and each at most
\* once; generate_podcast_script is called only with the resolved, non-empty
\* source text; a synthesis helper is called only with the script that
\* generate_podcast_script has returned; a result is shown only after a
\* synthesis helper has returned audio of that script; and once a mandatory
\* stage fails (basic fetch raises, the resolved text is empty, script
\* generation raises, OpenAI TTS raises) no further helper is called.
C10_StagesInOrder ==
    \A s \in Sessions :
        LET c == calls[s] IN
        /\ \A i \in 1..Len(c) : \A j \in 1..Len(c) :
               i < j => Rank(c[i].fn) < Rank(c[j].fn)
        /\ \A i \in CallsOf(s, GS) :
               /\ Truthy(c[i].text)
               /\ c[i].text = blog_text[s]
               /\ i > 1 => (c[i - 1].ok /\ c[i - 1].out = c[i].text)
               /\ i = 1 => c[i].text = strip(manual_content[s])
        /\ \A j \in CallsOf(s, EL) \cup CallsOf(s, OA) :
               \E i \in CallsOf(s, GS) :
                   i < j /\ c[i].ok /\ c[j].text = c[i].out
        /\ shown[s] # None =>
               /\ c # <<>>
               /\ c[Len(c)].fn \in {EL, OA}
               /\ c[Len(c)].ok
               /\ shown[s][1].audio.text = c[Len(c)].text
        /\ \A i \in 1..Len(c) :
               (c[i].fn \in {RQ, GS, OA} /\ ~c[i].ok) =>
                   (i = Len(c) /\ pc[s] = "error")
        /\ (pc[s] = "stopped" \/ (pc[s] = "check" /\ ~Truthy(blog_text[s]))) =>
               (CallsOf(s, GS) = {} /\ CallsOf(s, EL) = {} /\ CallsOf(s, OA) = {})

\* A finished run that went through every helper: Firecrawl, the basic
\* fetch, script generation, ElevenLabs and OpenAI TTS.
C10_Witness ==
    \E s \in Sessions :
        /\ pc[s] = "done"
        /\ Len(calls[s]) = 5

=============================================================================
